---- MODULE Spec2Model ----
(***************************************************************************)
(* A model of quick/awq/models/base.py (BaseAWQForCausalLM):               *)
(*   - from_quantized with the module-replacement pass                     *)
(*     (_load_quantized_modules, _scale_activations), checkpoint load and  *)
(*     post-init kernel activation           -> specification Spec         *)
(*   - the same pass over every accelerator name -> specification SpecKernel*)
(*   - the same call over every max_new_tokens argument, model config and   *)
(*     AWQ_BATCH_SIZE                        -> specification SpecCall     *)
(*   - the same pass over every projection size -> specification SpecDims  *)
(*   - quantize / pack / save_quantized on a wrapper object and the        *)
(*     checkpoint directory it writes        -> specification SpecSave     *)
(***************************************************************************)
EXTENDS Naturals, Integers, Sequences, FiniteSets, TLC

VARIABLES
    \* ---- from_quantized / _load_quantized_modules ----
    quant_config,     \* AwqConfig: zero_point, version, modules_to_not_convert
    use_exllama,      \* from_quantized argument
    use_exllama_v2,   \* from_quantized argument
    gpu_device,       \* torch.cuda.get_device_name(), a sequence of characters
    is_scalable,      \* get_act_for_scaling(layer)["is_scalable"] of the model class
    layers0,          \* the layers as built by from_config (never changed)
    layers,           \* the layers, mutated in place by the pass
    pc,               \* position of from_quantized
    i,                \* loop index of "for i in range(len(layers))" (1-based)
    named_linears,    \* the linears of the current layer still to be replaced
    gpu_A100,         \* local flag of the pass
    err,              \* the exception that ended the call ("" when none)
    loaded,           \* load_checkpoint_and_dispatch has completed
    post_init,        \* the post-init calls made so far, in order
    returned,         \* a wrapper object was returned to the caller
    log,              \* history: <<step, layer>> for every step of the pass
    max_new_tokens,   \* from_quantized argument: {} for None, {n} for n
    config,           \* the model config returned by _load_config
    AWQ_BATCH_SIZE,   \* the environment variable: {} when unset, {s} for the string s
    post_init_kwargs, \* the keyword arguments of the post-init calls made so far
    \* ---- the wrapper object: quantize / pack / save_quantized ----
    is_quantized,     \* self.is_quantized
    has_quantizer,    \* self.quantizer has been set (by quantize)
    quantize_runs,    \* history: how many times self.quantizer.quantize() has run
    gen,              \* version stamp of the model's tensors (quantize and pack rewrite them)
    state_dict,       \* self.model.state_dict(): sizes in iteration order, name = position
    dir,              \* save_dir: file name -> content
    spc,              \* position of save_quantized
    safetensors,      \* save_quantized argument
    shard_size,       \* save_quantized argument: the byte budget of a shard
    shards,           \* local of save_quantized: the shards of shard_checkpoint
    index,            \* local of save_quantized: the index of shard_checkpoint, or None
    written,          \* history: the files the current save_quantized call has written
    saves             \* history: number of save_quantized calls started

varsLoad == <<quant_config, use_exllama, use_exllama_v2, gpu_device, is_scalable,
              layers0, layers, pc, i, named_linears, gpu_A100, err, loaded,
              post_init, returned, log, max_new_tokens, config, AWQ_BATCH_SIZE,
              post_init_kwargs>>

\* the inputs of the call that no step assigns
varsCall == <<max_new_tokens, config, AWQ_BATCH_SIZE>>

varsSave == <<is_quantized, has_quantizer, quantize_runs, gen, state_dict, dir, spc,
              safetensors, shard_size, shards, index, written, saves>>

vars == <<varsLoad, varsSave>>

\* ------------------------------------------------------------------ bounds
MaxLayers == 2
MaxNameLen == 5
MaxParams == 3
MaxSize == 2
MaxCalls == 2
\* largest in_features / out_features of a projection
MaxDim == 2

\* k_split_1 = k_split_2 = 16 of the split-K constructor call
K_SPLIT == 16

\* the sequence length _load_config falls back to
DEFAULT_MAX_NEW_TOKENS == 2048

\* the default of os.getenv("AWQ_BATCH_SIZE", 1)
DEFAULT_BATCH_SIZE == 1

\* ------------------------------------------------------------------ helpers
Range(s) == {s[k] : k \in DOMAIN s}

\* Python's "sub in s" on strings
Contains(s, sub) ==
    \E k \in 1..(Len(s) + 1 - Len(sub)) : SubSeq(s, k, k + Len(sub) - 1) = sub

A100 == <<"A", "1", "0", "0">>
A1000 == <<"A", "1", "0", "0", "0">>

NameChars == {"A", "1", "0"}
SeqsUpTo(S, n) == UNION {[1..m -> S] : m \in 0..n}

\* the modules of a transformer block, in named_modules() order
ModuleOrder == <<"self_attn.q_proj", "self_attn.k_proj", "self_attn.v_proj",
                 "self_attn.qkv_proj", "self_attn.o_proj", "mlp.fc">>

\* A bias is the sequence of the tensors it was concatenated from; None is Python's
\* None (nn.Linear built with bias=False).
None == <<"None">>

\* nn.Linear(inf, outf, bias=b): tag names the projection its tensors belong to; the
\* weight is the sequence of its out_features rows
Dense(tag, b, inf, outf) ==
    [kind |-> "Linear", bias |-> IF b THEN <<tag>> ELSE None, args |-> <<>>,
     in_features |-> inf, out_features |-> outf,
     weight |-> [r \in 1..outf |-> <<tag, r>>]]

\* a block as from_config builds it; qb, kb, vb: q/k/v projections have a bias;
\* d: the hidden size (in) and the output sizes of the q, k and v projections
NewLayer(qb, kb, vb, d) ==
    [act |-> "plain",
     self_attn |-> "orig",
     mods |-> [n \in {"self_attn.q_proj", "self_attn.k_proj", "self_attn.v_proj",
                      "self_attn.o_proj", "mlp.fc"} |->
                 CASE n = "self_attn.q_proj" -> Dense("q", qb, d.in, d.q)
                   [] n = "self_attn.k_proj" -> Dense("k", kb, d.in, d.k)
                   [] n = "self_attn.v_proj" -> Dense("v", vb, d.in, d.v)
                   [] n = "self_attn.o_proj" -> Dense(n, FALSE, d.q, d.in)
                   [] OTHER -> Dense(n, FALSE, d.in, d.in)],
     reclaimed |-> FALSE]

AllLayers(d) == {NewLayer(qb, kb, vb, d) : qb \in BOOLEAN, kb \in BOOLEAN, vb \in BOOLEAN}

\* ------------------------------------------------ _load_quantized_modules

\* line 390-393: the two assertions; "" when both pass
ValidationError(qc, ex, ex2) ==
    IF ~qc.zero_point THEN "zero_point"
    ELSE IF qc.version = "GEMV" /\ (ex \/ ex2) THEN "gemv_exllama"
    ELSE ""

\* line 406: torch.cat over the three biases is evaluated only when q has a bias,
\* and raises when one of its elements is None
CatRaises(q, k, v) == q.bias # None /\ (k.bias = None \/ v.bias = None)

\* line 406: the fused bias
FusedBias(q, k, v) == IF q.bias # None THEN q.bias \o k.bias \o v.bias ELSE None

\* line 405: torch.cat([q.weight, k.weight, v.weight], dim=0)
FusedWeights(q, k, v) == q.weight \o k.weight \o v.weight

\* mutant: the fused layer is sized as three projections of q's output size
QkvLayer_EqualSizes(q, k, v) ==
    [kind |-> "Linear", bias |-> FusedBias(q, k, v), args |-> <<>>,
     in_features |-> q.in_features,
     out_features |-> 3 * q.out_features,
     weight |-> FusedWeights(q, k, v)]

\* line 407-410: qkv_layer
QkvLayer(q, k, v) ==
    [kind |-> "Linear", bias |-> FusedBias(q, k, v), args |-> <<>>,
     in_features |-> q.in_features,
     out_features |-> q.out_features + k.out_features + v.out_features,
     weight |-> FusedWeights(q, k, v)]

\* line 413: set_op_by_name(layer, 'self_attn', attn): the fused block owns
\* qkv_proj and the old o_proj; q_proj, k_proj, v_proj are gone
FuseLayer(layer) ==
    LET q == layer.mods["self_attn.q_proj"]
        k == layer.mods["self_attn.k_proj"]
        v == layer.mods["self_attn.v_proj"]
        keep == DOMAIN layer.mods \ {"self_attn.q_proj", "self_attn.k_proj", "self_attn.v_proj"}
    IN [layer EXCEPT
          !.self_attn = "fused",
          !.mods = [n \in keep \cup {"self_attn.qkv_proj"} |->
                      IF n = "self_attn.qkv_proj" THEN QkvLayer(q, k, v) ELSE layer.mods[n]]]

\* line 416-421: get_named_linears, then exclude_layers_to_not_quantize
NamedLinears(layer, exclude) ==
    SelectSeq(ModuleOrder,
              LAMBDA n : /\ n \in DOMAIN layer.mods
                         /\ layer.mods[n].kind = "Linear"
                         /\ n \notin exclude)

\* mutant: the A1000 sibling is not excluded
IsA100_NoSiblingCheck(name) == Contains(name, A100)

\* line 422-425
IsA100(name) == Contains(name, A100) /\ ~Contains(name, A1000)

\* mutant: the exllama flags are tested before the QUICK version
QLinearModule_FlagsFirst(version, ex, ex2) ==
    CASE ex -> "WQLinear_Exllama"
      [] ~ex /\ ex2 -> "WQLinear_ExllamaV2"
      [] ~ex /\ ~ex2 /\ version = "QUICK" -> "WQLinear_QUICK"
      [] ~ex /\ ~ex2 /\ version = "GEMM" -> "WQLinear_GEMM"
      [] ~ex /\ ~ex2 /\ version = "GEMV" -> "WQLinear_GEMV"

\* line 429-438: the kernel class chosen for a linear
QLinearModule(version, ex, ex2) ==
    CASE version = "QUICK" -> "WQLinear_QUICK"
      [] version # "QUICK" /\ ex -> "WQLinear_Exllama"
      [] version # "QUICK" /\ ~ex /\ ex2 -> "WQLinear_ExllamaV2"
      [] version = "GEMM" /\ ~ex /\ ~ex2 -> "WQLinear_GEMM"
      [] version = "GEMV" /\ ~ex /\ ~ex2 -> "WQLinear_GEMV"

\* line 440-447: the extra arguments of from_linear
FromLinearArgs(version, a100) ==
    IF version = "QUICK" /\ a100 THEN <<K_SPLIT, K_SPLIT>> ELSE <<>>

\* mutant: a linear that has a bias falls back to the plain GEMM kernel
QLinear_BiasFallsBack(module, version, ex, ex2, a100) ==
    [kind |-> IF module.bias # None THEN "WQLinear_GEMM" ELSE QLinearModule(version, ex, ex2),
     bias |-> module.bias,
     args |-> FromLinearArgs(version, a100),
     in_features |-> module.in_features,
     out_features |-> module.out_features,
     weight |-> module.weight]

\* line 440-449: from_linear keeps the linear's bias and its in_features and
\* out_features; weight names the rows the packed tensors stand for
QLinear(module, version, ex, ex2, a100) ==
    [kind |-> QLinearModule(version, ex, ex2),
     bias |-> module.bias,
     args |-> FromLinearArgs(version, a100),
     in_features |-> module.in_features,
     out_features |-> module.out_features,
     weight |-> module.weight]

\* line 455-469
ScaleLayer(layer, scalable) ==
    IF scalable /\ layer.act # "scaled" THEN [layer EXCEPT !.act = "scaled"] ELSE layer

\* the step that follows _scale_activations (line 404)
AfterScale(version) == IF version = "QUICK" THEN "fuse" ELSE "enum"

\* the step that follows the replacement of a layer's last linear (line 451)
AfterPack == "reclaim"

\* mutant: the loop bound is off by one, the last layer is never processed
AfterReclaim_OffByOne(k, n) == IF k + 1 < n THEN "scale" ELSE "tie"

\* line 398: the loop goes on with the next layer or ends
AfterReclaim(k, n) == IF k < n THEN "scale" ELSE "tie"

Raise(e) ==
    /\ pc' = "raised"
    /\ err' = e

Validate ==
    /\ pc = "validate"
    /\ LET e == ValidationError(quant_config, use_exllama, use_exllama_v2) IN
         IF e # "" THEN Raise(e) /\ UNCHANGED i
         ELSE /\ pc' = "scale"
              /\ i' = 1
              /\ UNCHANGED err
    /\ UNCHANGED <<quant_config, use_exllama, use_exllama_v2, gpu_device, is_scalable,
                   layers0, layers, named_linears, gpu_A100, loaded, post_init,
                   returned, log>>
    /\ UNCHANGED <<varsCall, post_init_kwargs>>
    /\ UNCHANGED varsSave

\* mutant: the scaling step walks every layer of the model, not the current one
ScaleActivations_AllLayers ==
    /\ pc = "scale"
    /\ layers' = [l \in DOMAIN layers |-> ScaleLayer(layers[l], is_scalable)]
    /\ log' = Append(log, <<"scale", i>>)
    /\ pc' = AfterScale(quant_config.version)
    /\ UNCHANGED <<quant_config, use_exllama, use_exllama_v2, gpu_device, is_scalable,
                   layers0, i, named_linears, gpu_A100, err, loaded, post_init, returned>>
    /\ UNCHANGED <<varsCall, post_init_kwargs>>
    /\ UNCHANGED varsSave

ScaleActivations ==
    /\ pc = "scale"
    /\ layers' = [layers EXCEPT ![i] = ScaleLayer(@, is_scalable)]
    /\ log' = Append(log, <<"scale", i>>)
    /\ pc' = AfterScale(quant_config.version)
    /\ UNCHANGED <<quant_config, use_exllama, use_exllama_v2, gpu_device, is_scalable,
                   layers0, i, named_linears, gpu_A100, err, loaded, post_init, returned>>
    /\ UNCHANGED <<varsCall, post_init_kwargs>>
    /\ UNCHANGED varsSave

FuseAttention ==
    /\ pc = "fuse"
    /\ log' = Append(log, <<"fuse", i>>)
    /\ LET m == layers[i].mods IN
         IF CatRaises(m["self_attn.q_proj"], m["self_attn.k_proj"], m["self_attn.v_proj"])
         THEN Raise("qkv_bias") /\ UNCHANGED layers
         ELSE /\ layers' = [layers EXCEPT ![i] = FuseLayer(@)]
              /\ pc' = "enum"
              /\ UNCHANGED err
    /\ UNCHANGED <<quant_config, use_exllama, use_exllama_v2, gpu_device, is_scalable,
                   layers0, i, named_linears, gpu_A100, loaded, post_init, returned>>
    /\ UNCHANGED <<varsCall, post_init_kwargs>>
    /\ UNCHANGED varsSave

EnumerateLinears ==
    /\ pc = "enum"
    /\ log' = Append(log, <<"enum", i>>)
    /\ named_linears' = NamedLinears(layers[i], quant_config.modules_to_not_convert)
    /\ gpu_A100' = IsA100(gpu_device)
    /\ pc' = IF named_linears' = <<>> THEN AfterPack ELSE "pack"
    /\ UNCHANGED <<quant_config, use_exllama, use_exllama_v2, gpu_device, is_scalable,
                   layers0, layers, i, err, loaded, post_init, returned>>
    /\ UNCHANGED <<varsCall, post_init_kwargs>>
    /\ UNCHANGED varsSave

PackLinear ==
    /\ pc = "pack"
    /\ LET name == Head(named_linears) IN
         /\ log' = Append(log, <<"pack", i>>)
         /\ layers' = [layers EXCEPT ![i].mods[name] =
                          QLinear(@, quant_config.version, use_exllama, use_exllama_v2, gpu_A100)]
    /\ named_linears' = Tail(named_linears)
    /\ pc' = IF named_linears' = <<>> THEN AfterPack ELSE "pack"
    /\ UNCHANGED <<quant_config, use_exllama, use_exllama_v2, gpu_device, is_scalable,
                   layers0, i, gpu_A100, err, loaded, post_init, returned>>
    /\ UNCHANGED <<varsCall, post_init_kwargs>>
    /\ UNCHANGED varsSave

ReclaimMemory ==
    /\ pc = "reclaim"
    /\ log' = Append(log, <<"reclaim", i>>)
    /\ layers' = [layers EXCEPT ![i].reclaimed = TRUE]
    /\ pc' = AfterReclaim(i, Len(layers))
    /\ i' = i + 1
    /\ UNCHANGED <<quant_config, use_exllama, use_exllama_v2, gpu_device, is_scalable,
                   layers0, named_linears, gpu_A100, err, loaded, post_init, returned>>
    /\ UNCHANGED <<varsCall, post_init_kwargs>>
    /\ UNCHANGED varsSave

\* ---------------------------------------------------------- from_quantized

\* line 293-297: tie_weights; for QUICK the rope holder of every block is deleted
TieWeights ==
    /\ pc = "tie"
    /\ pc' = "load"
    /\ UNCHANGED <<quant_config, use_exllama, use_exllama_v2, gpu_device, is_scalable,
                   layers0, layers, i, named_linears, gpu_A100, err, loaded, post_init,
                   returned, log>>
    /\ UNCHANGED <<varsCall, post_init_kwargs>>
    /\ UNCHANGED varsSave

LoadOutcomes == {"ok", "ShardMissingError", "ParameterShapeMismatchError"}

\* mutant: the exception of the load is swallowed
AfterLoad_Swallowed(outcome) == "post_init"

\* line 301-308: an exception of load_checkpoint_and_dispatch is not caught
AfterLoad(outcome) == IF outcome = "ok" THEN "post_init" ELSE "raised"

LoadCheckpointAndDispatch ==
    /\ pc = "load"
    /\ \E outcome \in LoadOutcomes :
         /\ pc' = AfterLoad(outcome)
         /\ err' = IF outcome = "ok" THEN err ELSE outcome
         /\ loaded' = (outcome = "ok")
    /\ UNCHANGED <<quant_config, use_exllama, use_exllama_v2, gpu_device, is_scalable,
                   layers0, layers, i, named_linears, gpu_A100, post_init, returned, log>>
    /\ UNCHANGED <<varsCall, post_init_kwargs>>
    /\ UNCHANGED varsSave

\* An optional value is a set: {} is Python's None (or an unset environment
\* variable, or a missing attribute), {x} is the value x.
Unset == {}
Some(x) == {x}
ValueOf(o) == CHOOSE x \in o : TRUE

\* line 366-382: config.max_new_tokens as _load_config sets it. tokens is the
\* max_new_tokens argument, has_key is hasattr(self, "max_new_tokens_key"), attr is
\* the config's attribute of that name (Unset when the config has none).
ConfigMaxNewTokens(tokens, has_key, attr) ==
    IF tokens = Unset /\ has_key
    THEN (IF attr = Unset THEN DEFAULT_MAX_NEW_TOKENS ELSE ValueOf(attr))
    ELSE (IF tokens = Unset THEN DEFAULT_MAX_NEW_TOKENS ELSE ValueOf(tokens))

DigitChars == <<"0", "1", "2", "3", "4", "5", "6", "7", "8", "9">>
DigitOf(c) == (CHOOSE d \in DOMAIN DigitChars : DigitChars[d] = c) - 1

RECURSIVE ParseInt(_)
\* Python's int(s) for a string of decimal digits
ParseInt(s) ==
    IF s = <<>> THEN 0
    ELSE 10 * ParseInt(SubSeq(s, 1, Len(s) - 1)) + DigitOf(s[Len(s)])

\* line 325: int(os.getenv("AWQ_BATCH_SIZE", 1))
MaxBatchSize(env) == IF env = Unset THEN DEFAULT_BATCH_SIZE ELSE ParseInt(ValueOf(env))

\* line 314-326: the keyword arguments of the post-init call, one entry per call;
\* max_input_len is the max_new_tokens argument of from_quantized as the caller
\* gave it
PostInitKwargs(ex, ex2, tokens, env) ==
    IF ex THEN <<[max_input_len |-> Unset, max_batch_size |-> Unset]>>
    ELSE IF ex2 THEN <<[max_input_len |-> tokens, max_batch_size |-> Some(MaxBatchSize(env))]>>
    ELSE <<>>

\* mutant: two independent ifs instead of if / elif
PostInitCalls_TwoIfs(ex, ex2) ==
    (IF ex THEN <<"exllama_post_init">> ELSE <<>>)
        \o (IF ex2 THEN <<"exllamav2_post_init">> ELSE <<>>)

\* line 314-326: if use_exllama ... elif use_exllama_v2 ...
PostInitCalls(ex, ex2) ==
    IF ex THEN <<"exllama_post_init">>
    ELSE IF ex2 THEN <<"exllamav2_post_init">>
    ELSE <<>>

PostInit ==
    /\ pc = "post_init"
    /\ post_init' = post_init \o PostInitCalls(use_exllama, use_exllama_v2)
    /\ post_init_kwargs' = post_init_kwargs
            \o PostInitKwargs(use_exllama, use_exllama_v2, max_new_tokens, AWQ_BATCH_SIZE)
    /\ pc' = "return"
    /\ UNCHANGED <<quant_config, use_exllama, use_exllama_v2, gpu_device, is_scalable,
                   layers0, layers, i, named_linears, gpu_A100, err, loaded, returned, log>>
    /\ UNCHANGED varsCall
    /\ UNCHANGED varsSave

\* line 328-335
Return ==
    /\ pc = "return"
    /\ returned' = TRUE
    /\ pc' = "done"
    /\ UNCHANGED <<quant_config, use_exllama, use_exllama_v2, gpu_device, is_scalable,
                   layers0, layers, i, named_linears, gpu_A100, err, loaded, post_init, log>>
    /\ UNCHANGED <<varsCall, post_init_kwargs>>
    /\ UNCHANGED varsSave

NextLoad ==
    \/ Validate
    \/ ScaleActivations
    \/ FuseAttention
    \/ EnumerateLinears
    \/ PackLinear
    \/ ReclaimMemory
    \/ TieWeights
    \/ LoadCheckpointAndDispatch
    \/ PostInit
    \/ Return

Versions == {"GEMM", "GEMV", "QUICK"}

\* quant_config.modules_to_not_convert
Exclusions == {{}, {"mlp.fc"}, {"self_attn.q_proj"}}

\* ------------------------------------------------------- checkpoint files

\* File names are <<name, idx, n>>: idx = n = 0 for a file that is not a shard.
WeightsName(st) == IF st THEN "model.safetensors" ELSE "pytorch_model.bin"
IndexName(st) == IF st THEN "model.safetensors.index.json" ELSE "pytorch_model.bin.index.json"
SingleFile(st) == <<WeightsName(st), 0, 0>>
IndexFile(st) == <<IndexName(st), 0, 0>>
\* weights_name with "-{idx:05d}-of-{n:05d}" put before its extension
ShardFile(st, idx, n) == <<WeightsName(st), idx, n>>

WeightsContent(t) == [kind |-> "weights", tensors |-> t, weight_map |-> <<>>, total_size |-> 0]
\* index = None of shard_checkpoint
NoIndex == [kind |-> "none", tensors |-> <<>>, weight_map |-> <<>>, total_size |-> 0]
IndexContent(wm, total) == [kind |-> "index", tensors |-> <<>>, weight_map |-> wm, total_size |-> total]

WriteFile(d, f, c) == [x \in DOMAIN d \cup {f} |-> IF x = f THEN c ELSE d[x]]
RemoveFile(d, f) == [x \in DOMAIN d \ {f} |-> d[x]]

\* the tensors of the model: parameter name -> value
Tensors(sd, g) == [n \in 1..Len(sd) |-> <<n, g>>]

RECURSIVE SumSizes(_, _)
SumSizes(sd, names) ==
    IF names = <<>> THEN 0 ELSE sd[Head(names)] + SumSizes(sd, Tail(names))

\* transformers' shard_checkpoint: one step of the greedy binning. A weight that
\* would tip the current shard over the budget opens a new shard, unless the
\* current shard is empty.
ShardStep(blocks, last, name, size, budget) ==
    IF last + size > budget /\ Len(blocks[Len(blocks)]) > 0
    THEN [blocks |-> Append(blocks, <<name>>), last |-> size]
    ELSE [blocks |-> [blocks EXCEPT ![Len(blocks)] = Append(@, name)], last |-> last + size]

RECURSIVE ShardFrom(_, _, _, _)
ShardFrom(sd, k, acc, budget) ==
    IF k > Len(sd) THEN acc.blocks
    ELSE ShardFrom(sd, k + 1, ShardStep(acc.blocks, acc.last, k, sd[k], budget), budget)

\* the shards of shard_checkpoint, each the sequence of its parameter names
shard_checkpoint(sd, budget) == ShardFrom(sd, 1, [blocks |-> << <<>> >>, last |-> 0], budget)

\* the index of shard_checkpoint: None for one shard
ShardIndex(sd, blocks, st) ==
    IF Len(blocks) = 1 THEN NoIndex
    ELSE IndexContent(
           [n \in 1..Len(sd) |->
              ShardFile(st, CHOOSE j \in 1..Len(blocks) : n \in Range(blocks[j]), Len(blocks))],
           SumSizes(sd, [n \in 1..Len(sd) |-> n]))

\* the file of shard j: weights_name itself when there is one shard
ShardFileOf(st, j, n) == IF n = 1 THEN SingleFile(st) ELSE ShardFile(st, j, n)

\* mutant: the index is always written under the safetensors name
IndexPath_AlwaysSafetensors(st) == IndexFile(TRUE)

\* line 193: the path of the index, "{model_name}.index.json"
IndexPath(st) == IndexFile(st)

\* ------------------------------------------------------------ the loader
\* load_checkpoint_and_dispatch on a checkpoint file, an index or a directory

LoadError(e) == [ok |-> FALSE, error |-> e, tensors |-> <<>>]
Loaded(t) == [ok |-> TRUE, error |-> "", tensors |-> t]

RECURSIVE MergeFiles(_, _, _)
\* the tensors of the files, a later file overriding an earlier one
MergeFiles(d, files, acc) ==
    IF files = <<>> THEN acc
    ELSE LET t == d[Head(files)].tensors IN
         MergeFiles(d, Tail(files),
                    [n \in DOMAIN acc \cup DOMAIN t |-> IF n \in DOMAIN t THEN t[n] ELSE acc[n]])

\* the shard files an index names, in name order
IndexFiles(ix) ==
    LET fs == Range(ix.weight_map)
        any == CHOOSE f \in fs : TRUE
    IN SelectSeq([j \in 1..any[3] |-> <<any[1], j, any[3]>>], LAMBDA f : f \in fs)

LoadFile(d, f) ==
    IF f \notin DOMAIN d THEN LoadError("ShardMissingError")
    ELSE IF d[f].kind = "weights" THEN Loaded(d[f].tensors)
    ELSE IF Range(d[f].weight_map) \subseteq DOMAIN d
         THEN Loaded(MergeFiles(d, IndexFiles(d[f]), <<>>))
         ELSE LoadError("ShardMissingError")

\* a directory: the whole-state file if there is one, else the one index
LoadDir(d) ==
    IF SingleFile(FALSE) \in DOMAIN d THEN LoadFile(d, SingleFile(FALSE))
    ELSE IF SingleFile(TRUE) \in DOMAIN d THEN LoadFile(d, SingleFile(TRUE))
    ELSE LET ixs == {f \in DOMAIN d : d[f].kind = "index"} IN
         IF Cardinality(ixs) = 1 THEN LoadFile(d, CHOOSE f \in ixs : TRUE)
         ELSE LoadError("ValueError")

\* ------------------------------------------------- quantize, pack, save_quantized

\* the calls made on the wrapper object so far: every quantize and pack call
\* rewrites the tensors, every save_quantized call is counted in saves
Calls == gen + saves

\* the byte budgets tried: below, at and above the size of the largest parameter
ShardSizes == 1..(MaxSize + 1)

\* line 92-121: nothing is checked before the quantizer runs
QuantizeRuns(flag, runs) == runs + 1

Quantize ==
    /\ spc \in {"idle", "done", "failed"}
    /\ Calls < MaxCalls
    /\ quantize_runs' = QuantizeRuns(is_quantized, quantize_runs)
    /\ has_quantizer' = TRUE
    /\ is_quantized' = TRUE
    /\ gen' = gen + 1
    /\ spc' = "idle"
    /\ UNCHANGED <<state_dict, dir, safetensors, shard_size, shards, index, written, saves>>
    /\ UNCHANGED varsLoad

\* line 124-138: self.quantizer.pack(); without a quantizer the call raises
Pack ==
    /\ spc \in {"idle", "done", "failed"}
    /\ Calls < MaxCalls
    /\ has_quantizer
    /\ gen' = gen + 1
    /\ spc' = "idle"
    /\ UNCHANGED <<is_quantized, has_quantizer, quantize_runs, state_dict, dir, safetensors,
                   shard_size, shards, index, written, saves>>
    /\ UNCHANGED varsLoad

\* line 164-171: both default files are removed when they exist
RemoveDefaultPaths(d) == RemoveFile(RemoveFile(d, SingleFile(TRUE)), SingleFile(FALSE))

\* line 145-179: save_pretrained with an empty state dict (it writes a default
\* weights file, model.safetensors or pytorch_model.bin), removal of the default
\* files, shard_checkpoint
SaveStart ==
    /\ spc \in {"idle", "done", "failed"}
    /\ Calls < MaxCalls
    /\ \E st \in BOOLEAN, budget \in ShardSizes, default \in BOOLEAN :
         /\ safetensors' = st
         /\ shard_size' = budget
         /\ dir' = RemoveDefaultPaths(WriteFile(dir, SingleFile(default), WeightsContent(<<>>)))
         /\ shards' = shard_checkpoint(state_dict, budget)
         /\ index' = ShardIndex(state_dict, shards', st)
    /\ written' = {}
    /\ saves' = saves + 1
    /\ spc' = "write_shards"
    /\ UNCHANGED <<is_quantized, has_quantizer, quantize_runs, gen, state_dict>>
    /\ UNCHANGED varsLoad

\* the shard the loop of line 181 is at
NextShard == Cardinality(written) + 1

\* mutant: the whole state dict is written into every shard file
ShardTensors_WholeStateDict(block) == Tensors(state_dict, gen)

\* line 184 / 189: the shard's tensors
ShardTensors(block) == [n \in Range(block) |-> Tensors(state_dict, gen)[n]]

\* mutant: the index is written inside the loop, after the first shard
AfterShard_IndexInLoop(j, n) == "write_index"

\* the step after a shard has been written: the loop goes on, then line 192
AfterShard(j, n) == IF j < n THEN "write_shards" ELSE "write_index"

\* line 181-189: one shard is written; save_file / torch.save may raise
WriteShard ==
    /\ spc = "write_shards"
    /\ \E ok \in BOOLEAN :
         IF ok
         THEN LET j == NextShard
                  f == ShardFileOf(safetensors, j, Len(shards))
              IN /\ dir' = WriteFile(dir, f, WeightsContent(ShardTensors(shards[j])))
                 /\ written' = written \cup {f}
                 /\ spc' = AfterShard(j, Len(shards))
         ELSE /\ spc' = "failed"
              /\ UNCHANGED <<dir, written>>
    /\ UNCHANGED <<is_quantized, has_quantizer, quantize_runs, gen, state_dict, safetensors,
                   shard_size, shards, index, saves>>
    /\ UNCHANGED varsLoad

\* line 191-194
WriteIndex ==
    /\ spc = "write_index"
    /\ IF index # NoIndex
       THEN /\ dir' = WriteFile(dir, IndexPath(safetensors), index)
            /\ written' = written \cup {IndexPath(safetensors)}
       ELSE UNCHANGED <<dir, written>>
    /\ spc' = "done"
    /\ UNCHANGED <<is_quantized, has_quantizer, quantize_runs, gen, state_dict, safetensors,
                   shard_size, shards, index, saves>>
    /\ UNCHANGED varsLoad

NextSave ==
    \/ Quantize
    \/ Pack
    \/ SaveStart
    \/ WriteShard
    \/ WriteIndex

\* no from_quantized call is running
IdleLoad ==
    /\ quant_config = [zero_point |-> TRUE, version |-> "GEMM", modules_to_not_convert |-> {}]
    /\ use_exllama = FALSE
    /\ use_exllama_v2 = FALSE
    /\ gpu_device = <<>>
    /\ is_scalable = FALSE
    /\ layers0 = <<>>
    /\ layers = <<>>
    /\ pc = "none"
    /\ i = 0
    /\ named_linears = <<>>
    /\ gpu_A100 = FALSE
    /\ err = ""
    /\ loaded = FALSE
    /\ post_init = <<>>
    /\ returned = FALSE
    /\ log = <<>>
    /\ max_new_tokens = Unset
    /\ config = [max_new_tokens |-> DEFAULT_MAX_NEW_TOKENS]
    /\ AWQ_BATCH_SIZE = Unset
    /\ post_init_kwargs = <<>>

\* a wrapper object as from_pretrained (is_quantized = False, line 232-239) or
\* from_quantized (is_quantized as given, line 328-335) returns it, and an empty
\* save directory
InitSave ==
    /\ is_quantized \in BOOLEAN
    /\ has_quantizer = FALSE
    /\ quantize_runs = 0
    /\ gen = 0
    /\ state_dict \in UNION {[1..n -> 1..MaxSize] : n \in 1..MaxParams}
    /\ dir = <<>>
    /\ spc = "idle"
    /\ safetensors = TRUE
    /\ shard_size = 0
    /\ shards = <<>>
    /\ index = NoIndex
    /\ written = {}
    /\ saves = 0
    /\ IdleLoad

SpecSave == InitSave /\ [][NextSave]_vars

\* the wrapper object's variables while from_quantized runs: no object exists yet
IdleSave ==
    /\ is_quantized = FALSE
    /\ has_quantizer = FALSE
    /\ quantize_runs = 0
    /\ gen = 0
    /\ state_dict = <<>>
    /\ dir = <<>>
    /\ spc = "none"
    /\ safetensors = TRUE
    /\ shard_size = 0
    /\ shards = <<>>
    /\ index = NoIndex
    /\ written = {}
    /\ saves = 0

\* the caller's max_new_tokens
CallerTokens == {Unset, Some(512)}
\* the model config's own sequence length attribute
ConfigSeqLens == {Unset, Some(4096)}
\* the environment's AWQ_BATCH_SIZE
BatchSizeEnvs == {Unset, Some(<<"1", "6">>)}

\* the calls of from_quantized: the max_new_tokens argument, whether the model class
\* has a max_new_tokens_key, the config's attribute of that name, the environment
AllCalls == [max_new_tokens : CallerTokens, has_key : BOOLEAN, attr : ConfigSeqLens,
             env : BatchSizeEnvs]

\* from_quantized(model_path, model_type) with nothing else given, for a model class
\* with a max_new_tokens_key
DefaultCall == [max_new_tokens |-> Unset, has_key |-> TRUE, attr |-> Some(4096),
                env |-> Unset]

\* the sizes of a model: hidden size and q, k, v output sizes, the same in every block
AllDims == [in : 1..MaxDim, q : 1..MaxDim, k : 1..MaxDim, v : 1..MaxDim]

\* multi-head attention: q, k and v of the hidden size
SquareDims == {d \in AllDims : d.in = MaxDim /\ d.q = d.in /\ d.k = d.in /\ d.v = d.in}

\* from_quantized after _load_config and from_config (line 260-281), entering
\* _load_quantized_modules
InitLoad(names, counts, dims, calls) ==
    /\ quant_config \in [zero_point : BOOLEAN, version : Versions,
                         modules_to_not_convert : Exclusions]
    /\ use_exllama \in BOOLEAN
    /\ use_exllama_v2 \in BOOLEAN
    /\ gpu_device \in names
    /\ is_scalable \in BOOLEAN
    /\ layers0 \in UNION {[1..n -> AllLayers(d)] : n \in counts, d \in dims}
    /\ layers = layers0
    /\ pc = "validate"
    /\ i = 0
    /\ named_linears = <<>>
    /\ gpu_A100 = FALSE
    /\ err = ""
    /\ loaded = FALSE
    /\ post_init = <<>>
    /\ returned = FALSE
    /\ log = <<>>
    /\ \E call \in calls :
          /\ max_new_tokens = call.max_new_tokens
          /\ config = [max_new_tokens |->
                           ConfigMaxNewTokens(call.max_new_tokens, call.has_key, call.attr)]
          /\ AWQ_BATCH_SIZE = call.env
    /\ post_init_kwargs = <<>>
    /\ IdleSave

Init == InitLoad({A100, A1000}, 1..MaxLayers, SquareDims, {DefaultCall})

Spec == Init /\ [][NextLoad]_vars

\* one block, every accelerator name
InitKernel == InitLoad(SeqsUpTo(NameChars, MaxNameLen), {1}, SquareDims, {DefaultCall})

SpecKernel == InitKernel /\ [][NextLoad]_vars

\* one block, one accelerator, every call
InitCall == InitLoad({A100}, {1}, SquareDims, AllCalls)

SpecCall == InitCall /\ [][NextLoad]_vars

\* one block, one accelerator, every size of the hidden state and of q, k, v
InitDims == InitLoad({A100}, {1}, AllDims, {DefaultCall})

SpecDims == InitDims /\ [][NextLoad]_vars

\* ================================================================ claims

ConfigErrors == {"zero_point", "gemv_exllama", "qkv_bias"}

HasBias(layer, n) == layer.mods[n].bias # None

\* the q, k and v projections of a block as built agree on having a bias
BiasesAgree(layer) ==
    /\ HasBias(layer, "self_attn.q_proj") = HasBias(layer, "self_attn.k_proj")
    /\ HasBias(layer, "self_attn.k_proj") = HasBias(layer, "self_attn.v_proj")

\* C1 (as claimed; refuted by the code): when a configuration error (non-zero-point
\* request, GEMV with an exllama flag, inconsistent q/k/v biases) is raised, no
\* layer has been modified: every layer is still as from_config built it.
C1_ConfigErrorBeforeAnyMutation ==
    (pc = "raised" /\ err \in ConfigErrors) => layers = layers0

\* C2 (as claimed; refuted by the code): fused-QKV assembly fails whenever q, k and
\* v do not all agree on having a bias; where they agree it succeeds, with the
\* q,k,v concatenation as fused bias when all have one and no bias when none has.
C2_InconsistentBiasAlwaysFails ==
    \A l \in DOMAIN layers :
        /\ layers[l].self_attn = "fused" => BiasesAgree(layers0[l])
        /\ (pc = "raised" /\ err = "qkv_bias" /\ l = i) => ~BiasesAgree(layers0[l])
        /\ (layers[l].self_attn = "fused" /\ BiasesAgree(layers0[l])) =>
              layers[l].mods["self_attn.qkv_proj"].bias =
                 IF HasBias(layers0[l], "self_attn.q_proj") THEN <<"q", "k", "v">> ELSE None

\* ---- C5: the order of the steps of the pass
Steps == {"scale", "fuse", "enum", "pack", "reclaim"}

\* the order the code has: scaling, fusing, enumeration, packing, reclaim
RankCode == [s \in Steps |->
    CASE s = "scale" -> 1 [] s = "fuse" -> 2 [] s = "enum" -> 3
      [] s = "pack" -> 4 [] s = "reclaim" -> 5]

\* the order the claim states: fusing, scaling, enumeration, packing, reclaim
RankClaim == [s \in Steps |->
    CASE s = "fuse" -> 1 [] s = "scale" -> 2 [] s = "enum" -> 3
      [] s = "pack" -> 4 [] s = "reclaim" -> 5]

Count(step, l) == Cardinality({a \in DOMAIN log : log[a] = <<step, l>>})

PassOver == pc \in {"tie", "load", "post_init", "return", "done"}
               \/ (pc = "raised" /\ err \notin ConfigErrors)

StepOrder(rank) ==
    \* layers in index order, and within a layer the steps in rank order
    /\ \A a, b \in DOMAIN log :
          a < b => \/ log[a][2] < log[b][2]
                   \/ log[a][2] = log[b][2] /\ rank[log[a][1]] <= rank[log[b][1]]
    \* a layer is started only after the reclaim of the layer before it
    /\ \A a \in DOMAIN log :
          log[a][2] > 1 => \E b \in 1..(a - 1) : log[b] = <<"reclaim", log[a][2] - 1>>
    \* a layer that was reclaimed had each step once, fusing exactly for QUICK,
    \* and one packing per enumerated linear
    /\ \A l \in DOMAIN layers :
          Count("reclaim", l) = 1 =>
             /\ Count("scale", l) = 1
             /\ Count("enum", l) = 1
             /\ Count("fuse", l) = (IF quant_config.version = "QUICK" THEN 1 ELSE 0)
             /\ Count("pack", l) =
                  Cardinality({n \in DOMAIN layers[l].mods : layers[l].mods[n].kind # "Linear"})
    \* Done only after the reclaim of the last layer
    /\ PassOver => (log # <<>> /\ log[Len(log)] = <<"reclaim", Len(layers)>>)

\* C5 (as claimed; refuted by the code): per layer the steps run in the order
\* fusing (QUICK only), scaling, enumeration, packing of each linear, reclaim;
\* layer i+1 starts after layer i's reclaim; Done comes after the last reclaim.
C5_FuseThenScale == StepOrder(RankClaim)

\* C5 (amended): per layer the steps run in the order activation scaling, attention
\* fusing (QUICK only), enumeration, packing of each enumerated linear, reclaim;
\* layer i+1 starts after layer i's reclaim; Done comes after the last reclaim.
C5_ScaleThenFuse == StepOrder(RankCode)

C5_Witness ==
    /\ pc = "done"
    /\ quant_config.version = "QUICK"
    /\ Len(layers) >= 2
    /\ Count("fuse", 2) = 1
    /\ Count("pack", 2) = 3

\* ---- C6: the split-K constructor
\* the name holds the characters A,1,0,0 in a row / A,1,0,0,0 in a row
HasA100(s) ==
    \E k \in 1..Len(s) :
        k + 3 <= Len(s) /\ s[k] = "A" /\ s[k + 1] = "1" /\ s[k + 2] = "0" /\ s[k + 3] = "0"
HasA1000(s) ==
    \E k \in 1..Len(s) : k + 4 <= Len(s) /\ s[k] = "A" /\ s[k + 1] = "1"
                           /\ s[k + 2] = "0" /\ s[k + 3] = "0" /\ s[k + 4] = "0"

Quantized(l) == {n \in DOMAIN layers[l].mods : layers[l].mods[n].kind # "Linear"}

\* C6: a quantized projection was built with k_split_1 = k_split_2 = 16 exactly when
\* the version is QUICK and the accelerator name contains A100 but not A1000; in
\* every other case it was built by the standard call without split factors.
C6_SplitKExactlyOnA100 ==
    \A l \in DOMAIN layers : \A n \in Quantized(l) :
        IF quant_config.version = "QUICK" /\ HasA100(gpu_device) /\ ~HasA1000(gpu_device)
        THEN layers[l].mods[n].args = <<16, 16>>
        ELSE layers[l].mods[n].args = <<>>

C6_Witness ==
    /\ quant_config.version = "QUICK"
    /\ gpu_device = <<"1", "A", "1", "0", "0">>
    /\ pc = "done"
    /\ \A n \in DOMAIN layers[1].mods : layers[1].mods[n].args = <<16, 16>>

\* ---- C7, C8: post-init and the checkpoint load
LoadErrors == {"ShardMissingError", "ParameterShapeMismatchError"}

\* C7: post-init kernel activation never runs twice and never before
\* load_checkpoint_and_dispatch has completed, and a from_quantized call with
\* use_exllama or use_exllama_v2 that returns has run it exactly once (also with
\* both flags set).
C7_PostInitOnceAfterLoad ==
    /\ Len(post_init) <= 1
    /\ post_init # <<>> => loaded
    /\ (pc \in {"return", "done"} /\ (use_exllama \/ use_exllama_v2)) => Len(post_init) = 1

C7_Witness ==
    /\ pc = "done"
    /\ use_exllama /\ use_exllama_v2
    /\ loaded
    /\ Len(post_init) = 1

\* C8: when load_checkpoint_and_dispatch fails (missing shard, shape mismatch) the
\* call is over: no post-init has run and no wrapper object is returned; a wrapper
\* is returned only for a model whose load completed.
C8_FailedLoadAborts ==
    /\ err \in LoadErrors => (pc = "raised" /\ post_init = <<>> /\ ~returned /\ ~loaded)
    /\ returned => (loaded /\ err = "")
    /\ pc \in {"post_init", "return", "done"} => loaded

C8_Witness ==
    /\ pc = "raised"
    /\ err = "ParameterShapeMismatchError"
    /\ use_exllama_v2
    /\ \A l \in DOMAIN layers : layers[l].reclaimed
\* ---- C3, C4, C9: save_quantized
SavedTensors == Tensors(state_dict, gen)

\* what the completed save wrote for a loader to start from: its manifest when it
\* wrote one, else its single weights file
WrittenEntry == IF index # NoIndex THEN IndexFile(safetensors) ELSE SingleFile(safetensors)

MaxParamSize == CHOOSE m \in Range(state_dict) : \A x \in Range(state_dict) : x <= m

\* C3: after a completed save_quantized, loading what it wrote (through the manifest
\* when one was written, else from the single weights file) succeeds and gives
\* exactly the saved parameter names, each with its saved value; loading the
\* directory itself gives the same when the directory held no earlier save.
C3_SaveLoadRoundTrip ==
    spc = "done" =>
        LET r == LoadFile(dir, WrittenEntry) IN
        /\ r.ok
        /\ DOMAIN r.tensors = DOMAIN SavedTensors
        /\ \A n \in DOMAIN SavedTensors : r.tensors[n] = SavedTensors[n]
        /\ saves = 1 => LoadDir(dir) = r

C3_Witness ==
    /\ spc = "done"
    /\ saves = 2
    /\ Len(shards) >= 2
    /\ shard_size >= MaxParamSize
    /\ written = {ShardFileOf(safetensors, j, Len(shards)) : j \in 1..Len(shards)}
                    \cup {IndexFile(safetensors)}
    /\ LoadFile(dir, IndexFile(safetensors)).ok

RECURSIVE Flatten(_)
Flatten(ss) == IF ss = <<>> THEN <<>> ELSE Head(ss) \o Flatten(Tail(ss))

SaveStarted == spc \in {"write_shards", "write_index", "done", "failed"}

WeightFilesWritten == {f \in written : dir[f].kind = "weights"}

\* C4: the shards of a save partition the parameter set in iteration order (binned
\* greedily: a shard is closed only when the next parameter would not fit), a shard
\* exceeds the budget only if it holds one parameter that alone exceeds it, and in
\* the files of a completed save every parameter name is in exactly one shard file.
C4_ShardsPartitionWithinBudget ==
    SaveStarted =>
        /\ Flatten(shards) = [n \in 1..Len(state_dict) |-> n]
        /\ \A j \in DOMAIN shards :
              /\ shards[j] # <<>>
              /\ \/ SumSizes(state_dict, shards[j]) <= shard_size
                 \/ Len(shards[j]) = 1 /\ state_dict[shards[j][1]] > shard_size
              /\ j < Len(shards) =>
                    SumSizes(state_dict, shards[j]) + state_dict[shards[j + 1][1]] > shard_size
        /\ spc = "done" =>
              \A n \in 1..Len(state_dict) :
                  Cardinality({f \in WeightFilesWritten : n \in DOMAIN dir[f].tensors}) = 1

C4_Witness ==
    /\ spc = "done"
    /\ Len(shards) = 2
    /\ shards[1] = <<1>>
    /\ state_dict[1] > shard_size
    /\ SumSizes(state_dict, shards[2]) <= shard_size
    /\ Cardinality(WeightFilesWritten) = 2

\* C9: the manifest of a save is written only after every shard file of that save
\* has been written, and a save in which a shard write failed has written no
\* manifest.
C9_ManifestAfterAllShards ==
    /\ IndexFile(safetensors) \in written =>
          \A j \in 1..Len(shards) : ShardFileOf(safetensors, j, Len(shards)) \in written
    /\ spc = "failed" => IndexFile(safetensors) \notin written
    /\ (spc = "done" /\ index # NoIndex) => IndexFile(safetensors) \in written

C9_Witness ==
    /\ spc = "done"
    /\ Len(shards) = 3
    /\ IndexFile(safetensors) \in written
    /\ Cardinality(written) = 4

\* ---- C10: quantize and the is_quantized flag
\* C10 (as claimed; refuted by the code): once is_quantized is true, a quantize call
\* does not run the quantization pass again.
C10_QuantizeGuardedByFlag == [][is_quantized => quantize_runs' = quantize_runs]_vars

\* ---- C11
\* the quantized projections of the model: <<layer, name>>
QuantizedProjections ==
    {ln \in (1..Len(layers)) \X Range(ModuleOrder) :
        /\ ln[2] \in DOMAIN layers[ln[1]].mods
        /\ layers[ln[1]].mods[ln[2]].kind # "Linear"}

\* C11: when the pass has completed, every quantized projection of every layer was
\* built by the same kernel constructor with the same format-specific arguments.
C11_OnePackingFormatPerModel ==
    PassOver =>
        \A a \in QuantizedProjections, b \in QuantizedProjections :
            /\ layers[a[1]].mods[a[2]].kind = layers[b[1]].mods[b[2]].kind
            /\ layers[a[1]].mods[a[2]].args = layers[b[1]].mods[b[2]].args

\* a completed pass over several layers, biased and unbiased projections quantized
\* in each of them
C11_Witness ==
    /\ pc = "done"
    /\ Len(layers) = MaxLayers
    /\ quant_config.version = "GEMM"
    /\ use_exllama_v2
    /\ \A l \in 1..Len(layers) :
          /\ <<l, "self_attn.q_proj">> \in QuantizedProjections
          /\ <<l, "self_attn.o_proj">> \in QuantizedProjections
          /\ layers[l].mods["self_attn.q_proj"].bias # None

\* ---- C12
\* the kernel class whose secondary handles a post-init call initialises
PostInitFormat(call) ==
    IF call = "exllama_post_init" THEN "WQLinear_Exllama" ELSE "WQLinear_ExllamaV2"

\* C12: a post-init call is applied only to a model whose projections were built in
\* the matching format: exllama_post_init only on WQLinear_Exllama projections,
\* exllamav2_post_init only on WQLinear_ExllamaV2 projections.
C12_PostInitMatchesFormat ==
    \A c \in DOMAIN post_init :
        \A ln \in QuantizedProjections :
            layers[ln[1]].mods[ln[2]].kind = PostInitFormat(post_init[c])

\* ---- C15
\* every non-excluded linear of layer l is quantized and the layer has been reclaimed
Converted(l) ==
    /\ \A n \in DOMAIN layers[l].mods :
          n \notin quant_config.modules_to_not_convert => layers[l].mods[n].kind # "Linear"
    /\ layers[l].reclaimed

\* no activation wrapped, no attention fused, no linear swapped
Untouched(l) == layers[l] = layers0[l]

\* C15: at every point of the pass at most one layer is partially converted: every
\* layer before the current one is converted and reclaimed, every layer after it is
\* untouched.
C15_OneLayerInFlight ==
    \A l \in 1..Len(layers) :
        /\ l < i => Converted(l)
        /\ l > i => Untouched(l)

\* the first layer holds dense and quantized projections at once, with a layer
\* still to come
C15_Witness ==
    /\ pc = "pack"
    /\ i = 1
    /\ Len(layers) = MaxLayers
    /\ is_scalable
    /\ \E n \in DOMAIN layers[1].mods : layers[1].mods[n].kind # "Linear"
    /\ named_linears # <<>>

\* ---- C18
KernelConstructors ==
    {"WQLinear_QUICK", "WQLinear_Exllama", "WQLinear_ExllamaV2", "WQLinear_GEMM",
     "WQLinear_GEMV"}

\* the constructors the stated precedence allows for a configuration
PrecedenceAllows(version, ex, ex2) ==
    {c \in KernelConstructors :
        /\ c = "WQLinear_QUICK" <=> version = "QUICK"
        /\ c = "WQLinear_Exllama" <=> (version # "QUICK" /\ ex)
        /\ c = "WQLinear_ExllamaV2" <=> (version # "QUICK" /\ ~ex /\ ex2)
        /\ c = "WQLinear_GEMM" <=> (version = "GEMM" /\ ~ex /\ ~ex2)
        /\ c = "WQLinear_GEMV" <=> (version = "GEMV" /\ ~ex /\ ~ex2)}

\* C18: QUICK wins over both exllama flags, use_exllama over use_exllama_v2, either
\* flag over GEMM, plain GEMM / GEMV only without a flag; for every configuration that
\* passes validation exactly one constructor is allowed and every replaced linear was
\* built by it.
C18_ConstructorPrecedence ==
    pc \notin {"validate"} /\ err \notin {"zero_point", "gemv_exllama"} =>
        /\ Cardinality(PrecedenceAllows(quant_config.version, use_exllama, use_exllama_v2)) = 1
        /\ \A ln \in QuantizedProjections :
              layers[ln[1]].mods[ln[2]].kind
                  \in PrecedenceAllows(quant_config.version, use_exllama, use_exllama_v2)

\* QUICK with both flags set: a linear has been replaced by the QUICK constructor
C18_Witness ==
    /\ quant_config.version = "QUICK"
    /\ use_exllama
    /\ use_exllama_v2
    /\ \E ln \in QuantizedProjections : layers[ln[1]].mods[ln[2]].kind = "WQLinear_QUICK"

\* ---- C16
\* C16: when from_quantized is done, a linear of a layer is a quantized projection if
\* and only if its name is not in modules_to_not_convert: every excluded linear the
\* layer was built with is still its original dense module, and no non-excluded
\* linear is left dense.
C16_ExcludedStayDense ==
    pc = "done" =>
        \A l \in 1..Len(layers) :
            /\ \A n \in DOMAIN layers[l].mods :
                  layers[l].mods[n].kind # "Linear"
                      <=> n \notin quant_config.modules_to_not_convert
            /\ \A n \in DOMAIN layers0[l].mods \cap quant_config.modules_to_not_convert :
                  /\ n \in DOMAIN layers[l].mods
                  /\ layers[l].mods[n] = layers0[l].mods[n]

\* ---- C17
\* the index manifests in the directory
Manifests == {f \in DOMAIN dir : dir[f].kind = "index"}

\* C17: after any sequence of completed saves into the same directory, what a loader
\* of the directory finds is exactly the last save: loading the directory gives the
\* tensors of the last save, and no index manifest of an earlier save remains.
C17_SaveOverwritesEarlierSave ==
    spc = "done" =>
        /\ LoadDir(dir) = Loaded(SavedTensors)
        /\ Manifests \subseteq written

\* ---- C13
\* C13: the exllama-v2 post-init is given max_batch_size = 1 unless AWQ_BATCH_SIZE
\* overrides it, and a max_input_len that is never unset: when the caller supplied no
\* max_new_tokens it is the config.max_new_tokens that _load_config established.
C13_ScratchSizedFromConfig ==
    \A c \in DOMAIN post_init :
        post_init[c] = "exllamav2_post_init" =>
            /\ post_init_kwargs[c].max_batch_size =
                   (IF AWQ_BATCH_SIZE = Unset THEN Some(1)
                    ELSE Some(ParseInt(ValueOf(AWQ_BATCH_SIZE))))
            /\ post_init_kwargs[c].max_input_len # Unset
            /\ max_new_tokens = Unset =>
                   post_init_kwargs[c].max_input_len = Some(config.max_new_tokens)

\* ---- C14
\* the row the fused weight must hold at position r, given the block's original
\* q, k and v projections
ExpectedRow(q, k, v, r) ==
    IF r <= q.out_features THEN q.weight[r]
    ELSE IF r <= q.out_features + k.out_features THEN k.weight[r - q.out_features]
    ELSE v.weight[r - q.out_features - k.out_features]

\* C14: the fused QKV projection has q's in_features as its input dimension, the sum
\* of the q, k and v output sizes as its output dimension, and its weight rows are
\* q's rows, then k's, then v's, whatever the three output sizes are.
C14_FusedShape ==
    \A l \in 1..Len(layers) :
        layers[l].self_attn = "fused" =>
            LET q == layers0[l].mods["self_attn.q_proj"]
                k == layers0[l].mods["self_attn.k_proj"]
                v == layers0[l].mods["self_attn.v_proj"]
                qkv == layers[l].mods["self_attn.qkv_proj"]
            IN /\ qkv.in_features = q.in_features
               /\ qkv.out_features = q.out_features + k.out_features + v.out_features
               /\ Len(qkv.weight) = qkv.out_features
               /\ \A r \in 1..Len(qkv.weight) : qkv.weight[r] = ExpectedRow(q, k, v, r)

\* a fused block whose q projection is larger than its k and v projections, the
\* fused projection already quantized
C14_Witness ==
    /\ Len(layers) = 1
    /\ layers[1].self_attn = "fused"
    /\ layers0[1].mods["self_attn.q_proj"].out_features = MaxDim
    /\ layers0[1].mods["self_attn.k_proj"].out_features = 1
    /\ layers0[1].mods["self_attn.v_proj"].out_features = 1
    /\ layers[1].mods["self_attn.qkv_proj"].kind = "WQLinear_QUICK"
    /\ layers[1].mods["self_attn.qkv_proj"].out_features = MaxDim + 2

====
